---------------------------- MODULE Spec2Model ----------------------------
(***************************************************************************)
(* Model of the GraphVisualizer canvas (grafatko.Canvas): the interaction  *)
(* state machine (selection, dragging, group dragging, root, deletion,     *)
(* node and edge creation) and the force simulation tick (Canvas.update),  *)
(* and of the first version of the program (TreeVisualizer) with its tick  *)
(* perform_simulation_iteration.                                           *)
(*                                                                         *)
(* Numbers: the program computes with floats.  The model computes in fixed *)
(* point: one world unit is Unit model units, and every division rounds    *)
(* towards zero, so that -(a / b) = (-a) / b as in float arithmetic.       *)
(* Pointer positions are given in world coordinates.                       *)
(***************************************************************************)
EXTENDS Integers, Sequences, FiniteSets, TLC

(***************************************************************************)
(* Bounds of the model.                                                    *)
(***************************************************************************)
MaxNodes == 3      \* nodes ever created on the canvas
MaxGrid  == 1      \* the pointer visits the grid points <<x, y>> with x + y <= MaxGrid
MaxTicks == 1      \* simulation ticks of the canvas, after its events
MaxSimTicks == 2   \* simulation ticks of the canvas, between its events
MaxImports == 2    \* successful imports of a graph
MaxViewNodes == 2  \* nodes created on the canvas while its view is dragged
MaxPan == 1        \* the view is dragged and zoomed within MaxPan * Step world units
MinScale == 15     \* the wheel keeps the scale of the view at MinScale or above
MaxScale == 60     \* and at MaxScale or below
MaxIterations == 2 \* simulation iterations of the TreeVisualizer

(***************************************************************************)
(* Fixed point and geometry.                                               *)
(***************************************************************************)
Unit   == 10         \* model units per world unit (a float 1.0)
Step   == 3 * Unit   \* distance of two neighbouring grid points
Radius == 1 * Unit   \* hit radius of a node

None == 0
NodeIds == 1 .. MaxNodes
Zero == <<0, 0>>
NoDrag == <<>>

MousePoints ==
    { <<x * Step, y * Step>> : x, y \in 0 .. MaxGrid } \cap
    { p \in (0 .. MaxGrid * Step) \X (0 .. MaxGrid * Step) : p[1] + p[2] <= MaxGrid * Step }

\* the part of the world the drags of the model stay in
InWorld(p) ==
    /\ -Radius <= p[1] /\ p[1] <= MaxGrid * Step + Radius
    /\ -Radius <= p[2] /\ p[2] <= MaxGrid * Step + Radius

VARIABLES
    nodes,      \* graph.get_nodes(): the nodes of the graph, in insertion order
    edges,      \* the edges (vertices) of the graph: pairs <<source, target>>
    position,   \* node -> its position
    force,      \* node -> its accumulated force
    drag,       \* node -> NoDrag, or the pointer-to-node offset of its drag
    selected,   \* graph.get_selected()
    root,       \* graph.get_root(): a node, or None
    forces,     \* Canvas.forces
    mouse,      \* mouse.get_position()
    left,       \* mouse.left.pressed()
    shift,      \* keyboard.shift.pressed()
    space,      \* keyboard.space.pressed()
    created,    \* number of nodes created so far (the next node is created + 1)
    ticks,      \* number of ticks of the timer so far
    grabbed,    \* the node of the last left press, while only the pointer has moved since
    translation,  \* transformation.translation, in pixels
    scale,      \* transformation.scale, pixels per world unit
    middle,     \* mouse.middle.pressed()
    held,       \* the graph object Canvas.graph refers to: 1 is the graph of
                \* Canvas.__init__, k + 1 the graph of the k-th successful import
    acted,      \* the graph object the last action of the settings dock since the
                \* last import acted on, or None
    directed,   \* the flag directed of the graph the canvas holds
    raised,     \* the last import or export has raised an error out of its handler
    reported,   \* the last import or export has reported an error in a message box
    file,       \* the file at the path of the last export
    \* the TreeVisualizer
    tnodes,             \* graph.get_nodes(): the positions of the nodes, in insertion order
    tedges,             \* the vertices of the graph: pairs of indices of tnodes
    selected_node,      \* TreeVisualizer.selected_node: an index of tnodes, or None
    mouse_drag_offset,  \* TreeVisualizer.mouse_drag_offset: a vector, or NoDrag for None
    mouse_xy,           \* <<TreeVisualizer.mouse_x, TreeVisualizer.mouse_y>>
    iterations,         \* number of simulation iterations so far
    failed              \* an iteration has raised an error

canvasVars == <<nodes, edges, position, force, drag, selected, root, forces, mouse,
                left, shift, space, created, ticks, grabbed, translation,
                scale, middle, held, acted, directed, raised, reported, file>>
dockVars == <<held, acted, directed, raised, reported, file>>
treeVars == <<tnodes, tedges, selected_node, mouse_drag_offset, mouse_xy, iterations,
              failed>>
vars == <<nodes, edges, position, force, drag, selected, root, forces, mouse,
          left, shift, space, created, ticks, grabbed, translation, scale, middle,
          held, acted, directed, raised, reported, file,
          tnodes, tedges, selected_node, mouse_drag_offset, mouse_xy, iterations, failed>>

(***************************************************************************)
(* Vector (utilities.py).                                                  *)
(***************************************************************************)
Div(a, b) == IF a >= 0 THEN a \div b ELSE -((-a) \div b)

VAdd(u, v) == <<u[1] + v[1], u[2] + v[2]>>
VSub(u, v) == <<u[1] - v[1], u[2] - v[2]>>
VNeg(u) == <<-u[1], -u[2]>>

\* Vector.__mul__ by a scalar, Vector.__truediv__: k is a fixed-point number
VMul(u, k) == <<Div(u[1] * k, Unit), Div(u[2] * k, Unit)>>
VDivInt(u, k) == <<Div(u[1], k), Div(u[2], k)>>

\* the integer square root: the largest r with r * r <= n
RECURSIVE ISqrtIn(_, _, _)
ISqrtIn(n, lo, hi) ==
    IF lo >= hi THEN lo
    ELSE LET mid == (lo + hi + 1) \div 2
         IN  IF mid * mid <= n THEN ISqrtIn(n, mid, hi) ELSE ISqrtIn(n, lo, mid - 1)
\* the roots of the small numbers, computed once
SmallRoots == [n \in 0 .. 20000 |-> ISqrtIn(n, 0, n)]
\* (46340 is the root of the largest number the model computes with)
ISqrt(n) ==
    IF n \in DOMAIN SmallRoots THEN SmallRoots[n]
    ELSE ISqrtIn(n, 0, IF n < 46340 THEN n ELSE 46340)

\* Vector.magnitude
Magnitude(u) == ISqrt(u[1] * u[1] + u[2] * u[2])

\* Vector.distance
Distance(p, q) == ISqrt((p[1] - q[1]) * (p[1] - q[1]) + (p[2] - q[2]) * (p[2] - q[2]))

\* Vector.unit: the division by the magnitude (which must not be 0)
UnitVector(u) ==
    LET m == Magnitude(u)
    IN  <<Div(u[1] * Unit, m), Div(u[2] * Unit, m)>>

RECURSIVE VSum(_)
VSum(l) == IF l = <<>> THEN Zero ELSE VAdd(Head(l), VSum(Tail(l)))

\* Vector.average (the list must not be empty)
Average(l) == VDivInt(VSum(l), Len(l))

RECURSIVE SeqToSet(_)
SeqToSet(s) == IF s = <<>> THEN {} ELSE {Head(s)} \cup SeqToSet(Tail(s))

NodeSet == SeqToSet(nodes)

(***************************************************************************)
(* Graph (graph.py).                                                       *)
(***************************************************************************)
\* the neighbours of the nodes of S, every edge taken as undirected
Neighbours(S, E) == { n \in NodeIds : \E m \in S : <<m, n>> \in E \/ <<n, m>> \in E }

RECURSIVE Closure(_, _)
Closure(S, E) ==
    LET T == S \cup Neighbours(S, E)
    IN  IF T = S THEN S ELSE Closure(T, E)

\* graph.weakly_connected(n1, n2)
WeaklyConnectedIn(n1, n2, E) == n2 \in Closure({n1}, E)
WeaklyConnected(n1, n2) == WeaklyConnectedIn(n1, n2, edges)

\* graph.get_weakly_connected(*ns): the union of the weak components of ns
GetWeaklyConnected(S) == Closure(S, edges)

Dist2(p, q) == (p[1] - q[1]) * (p[1] - q[1]) + (p[2] - q[2]) * (p[2] - q[2])

\* graph.node_at_position(p): the nearest node within its radius, the first of
\* the nearest in insertion order
NodeAtPosition(p) ==
    LET hit == { i \in 1 .. Len(nodes) : Dist2(position[nodes[i]], p) <= Radius * Radius }
    IN  IF hit = {} THEN None
        ELSE nodes[CHOOSE i \in hit : \A j \in hit :
                      \/ Dist2(position[nodes[i]], p) < Dist2(position[nodes[j]], p)
                      \/ /\ Dist2(position[nodes[i]], p) = Dist2(position[nodes[j]], p)
                         /\ i <= j]

\* node.is_dragged()
IsDragged(d, n) == d[n] # NoDrag

(***************************************************************************)
(* Canvas (grafatko/__init__.py).                                          *)
(***************************************************************************)
\* the scale of a new Transformation
InitialScale == 20

\* a new canvas, but for its view
InitGraph ==
    /\ nodes = <<>>
    /\ edges = {}
    /\ position = [n \in NodeIds |-> Zero]
    /\ force = [n \in NodeIds |-> Zero]
    /\ drag = [n \in NodeIds |-> NoDrag]
    /\ selected = {}
    /\ root = None
    /\ forces = TRUE
    /\ mouse = Zero
    /\ left = FALSE
    /\ shift = FALSE
    /\ space = FALSE
    /\ created = 0
    /\ ticks = 0
    /\ grabbed = None
    /\ middle = FALSE
    /\ held = 1
    /\ acted = None
    /\ directed = FALSE
    /\ raised = FALSE
    /\ reported = FALSE
    /\ file = "absent"
    /\ tnodes = <<>>
    /\ tedges = {}
    /\ selected_node = None
    /\ mouse_drag_offset = NoDrag
    /\ mouse_xy = <<-Unit, -Unit>>
    /\ iterations = 0
    /\ failed = FALSE

Init ==
    /\ InitGraph
    /\ translation = Zero
    /\ scale = InitialScale

\* a slip: only the direct neighbours of the selection follow
StartShiftDraggingNodes_Direct(d, sel) ==
    [n \in NodeIds |->
        IF n \in Neighbours(sel, edges) /\ ~IsDragged(d, n) /\ n \notin sel
        THEN VSub(mouse, position[n])
        ELSE d[n]]

\* Canvas.start_shift_dragging_nodes, on the selection sel and the drags d
StartShiftDraggingNodes(d, sel) ==
    [n \in NodeIds |->
        IF n \in GetWeaklyConnected(sel) /\ ~IsDragged(d, n) /\ n \notin sel
        THEN VSub(mouse, position[n])
        ELSE d[n]]

\* Canvas.stop_shift_dragging_nodes
StopShiftDraggingNodes(d, sel) ==
    [n \in NodeIds |->
        IF n \in GetWeaklyConnected(sel) /\ IsDragged(d, n) /\ n \notin sel
        THEN NoDrag
        ELSE d[n]]

\* a slip: the selection is replaced also when shift is held
Select_Replace(n) == {n}

\* Canvas.select(node): the selection afterwards
Select(n) == IF ~shift THEN {n} ELSE selected \cup {n}

\* a slip: a press off every node deselects also when shift is held
LeftPressSelection_Deselect(hit) == IF hit # None THEN Select(hit) ELSE {}

\* Canvas.mousePressEvent, the left button: the selection afterwards
LeftPressSelection(hit) ==
    IF hit # None THEN Select(hit)
    ELSE IF ~shift THEN {} ELSE selected

\* Transformation.translate(delta): the translation it sets
Translate(delta) == VAdd(translation, <<delta[1] * scale, delta[2] * scale>>)

\* the translations the pans and zooms of the model stay in
InView(t) ==
    \/ t = translation
    \/ \A i \in 1 .. 2 : /\ -(MaxPan * Step * InitialScale) <= t[i]
                         /\ t[i] <= MaxPan * Step * InitialScale

\* a slip: the middle button drags the view while space is held, too
MouseMove_PanUnderSpace(p) ==
    /\ p # mouse
    /\ mouse' = p
    /\ position' = [n \in NodeIds |->
                      IF ~space /\ n \in NodeSet /\ IsDragged(drag, n)
                      THEN VSub(p, drag[n])
                      ELSE position[n]]
    /\ \A n \in NodeSet : IsDragged(drag, n) => InWorld(position'[n])
    /\ translation' = IF middle THEN Translate(VSub(p, mouse)) ELSE translation
    /\ InView(translation')
    /\ grabbed' = grabbed
    /\ UNCHANGED <<nodes, edges, force, drag, selected, root, forces, left, shift,
                   space, created, ticks, scale, middle>>
    /\ UNCHANGED dockVars
    /\ UNCHANGED treeVars

\* Canvas.mouseMoveEvent
MouseMove(p) ==
    /\ p # mouse
    /\ mouse' = p
    /\ position' = [n \in NodeIds |->
                      IF ~space /\ n \in NodeSet /\ IsDragged(drag, n)
                      THEN VSub(p, drag[n])
                      ELSE position[n]]
    /\ \A n \in NodeSet : IsDragged(drag, n) => InWorld(position'[n])
    /\ translation' = IF ~space /\ middle THEN Translate(VSub(p, mouse))
                      ELSE translation
    /\ InView(translation')
    /\ grabbed' = grabbed
    /\ UNCHANGED <<nodes, edges, force, drag, selected, root, forces, left, shift,
                   space, created, ticks, scale, middle>>
    /\ UNCHANGED dockVars
    /\ UNCHANGED treeVars

\* Canvas.mousePressEvent, the left button
MousePressLeft ==
    /\ ~left
    /\ left' = TRUE
    /\ LET pressed == NodeAtPosition(mouse)
           sel == LeftPressSelection(pressed)
           started == [n \in NodeIds |->
                         IF n \in sel THEN VSub(mouse, position[n]) ELSE drag[n]]
       IN  /\ selected' = sel
           /\ drag' = IF pressed = None THEN drag
                      ELSE IF shift THEN StartShiftDraggingNodes(started, sel)
                      ELSE started
           /\ grabbed' = pressed
    /\ UNCHANGED <<nodes, edges, position, force, root, forces, mouse, shift, space,
                   created, ticks>>
    /\ UNCHANGED <<translation, scale, middle>>
    /\ UNCHANGED dockVars
    /\ UNCHANGED treeVars

\* Canvas.mouseReleaseEvent, the left button
MouseReleaseLeft ==
    /\ left
    /\ left' = FALSE
    /\ drag' = [n \in NodeIds |->
                  IF n \in selected THEN NoDrag
                  ELSE StopShiftDraggingNodes(drag, selected)[n]]
    /\ grabbed' = None
    /\ UNCHANGED <<nodes, edges, position, force, selected, root, forces, mouse,
                   shift, space, created, ticks>>
    /\ UNCHANGED <<translation, scale, middle>>
    /\ UNCHANGED dockVars
    /\ UNCHANGED treeVars

\* Canvas.mousePressEvent, the middle button: the press is recorded
MousePressMiddle ==
    /\ ~middle
    /\ middle' = TRUE
    /\ grabbed' = None
    /\ UNCHANGED <<nodes, edges, position, force, drag, selected, root, forces,
                   mouse, left, shift, space, created, ticks, translation, scale>>
    /\ UNCHANGED dockVars
    /\ UNCHANGED treeVars

\* Canvas.mouseReleaseEvent, the middle button: the release is recorded
MouseReleaseMiddle ==
    /\ middle
    /\ middle' = FALSE
    /\ grabbed' = None
    /\ UNCHANGED <<nodes, edges, position, force, drag, selected, root, forces,
                   mouse, left, shift, space, created, ticks, translation, scale>>
    /\ UNCHANGED dockVars
    /\ UNCHANGED treeVars

\* graph.is_vertex(n1, n2)
IsVertex(E, n1, n2) == <<n1, n2>> \in E

\* a slip: an edge from a node to itself is accepted
AddVertex_Loops(E, n1, n2) ==
    IF IsVertex(E, n1, n2) \/ IsVertex(E, n2, n1) THEN E
    ELSE E \cup {<<n1, n2>>}

\* graph.add_vertex(n1, n2) on an undirected graph without loops
AddVertex(E, n1, n2) ==
    IF n1 = n2 \/ IsVertex(E, n1, n2) \/ IsVertex(E, n2, n1) THEN E
    ELSE E \cup {<<n1, n2>>}

\* graph.remove_vertex(n1, n2) on an undirected graph
RemoveVertex(E, n1, n2) == E \ {<<n1, n2>>, <<n2, n1>>}

\* graph.toggle_vertex(n1, n2)
ToggleVertex(E, n1, n2) ==
    IF IsVertex(E, n1, n2) \/ IsVertex(E, n2, n1)
    THEN RemoveVertex(E, n1, n2)
    ELSE AddVertex(E, n1, n2)

\* mousePressEvent, lines 251-252: "for node in selected: add_vertex(node, pressed)"
RECURSIVE AddVertices(_, _, _)
AddVertices(E, S, pressed) ==
    IF S = {} THEN E
    ELSE LET n == CHOOSE m \in S : \A k \in S : m <= k
         IN  AddVertices(AddVertex(E, n, pressed), S \ {n}, pressed)

\* a slip: the press on a node adds the missing edges and removes none
ToggleVertices_AddOnly(E, S, pressed) == AddVertices(E, S, pressed)

\* mousePressEvent, lines 257-258: "for node in selected: toggle_vertex(node, pressed)"
RECURSIVE ToggleVertices(_, _, _)
ToggleVertices(E, S, pressed) ==
    IF S = {} THEN E
    ELSE LET n == CHOOSE m \in S : \A k \in S : m <= k
         IN  ToggleVertices(ToggleVertex(E, n, pressed), S \ {n}, pressed)

\* Canvas.mousePressEvent, the right button
MousePressRight ==
    /\ LET pressed == NodeAtPosition(mouse)
           new == created + 1
       IN  IF pressed = None
           THEN /\ created < MaxNodes
                /\ created' = new
                /\ nodes' = Append(nodes, new)
                /\ position' = [position EXCEPT ![new] = mouse]
                /\ edges' = AddVertices(edges, selected, new)
                /\ selected' = Select(new)
           ELSE /\ edges' = ToggleVertices(edges, selected, pressed)
                /\ UNCHANGED <<nodes, position, selected, created>>
    /\ grabbed' = None
    /\ UNCHANGED <<force, drag, root, forces, mouse, left, shift, space, ticks>>
    /\ UNCHANGED <<translation, scale, middle>>
    /\ UNCHANGED dockVars
    /\ UNCHANGED treeVars

\* a slip: removing the root leaves the root reference in place
RemoveNodes_KeepRoot(S) ==
    /\ nodes' = SelectSeq(nodes, LAMBDA n : n \notin S)
    /\ edges' = { e \in edges : e[1] \notin S /\ e[2] \notin S }
    /\ selected' = selected \ S
    /\ root' = root
    /\ position' = [n \in NodeIds |-> IF n \in S THEN Zero ELSE position[n]]
    /\ drag' = [n \in NodeIds |-> IF n \in S THEN NoDrag ELSE drag[n]]

\* graph.remove_node(node), for every node of the set S
RemoveNodes(S) ==
    /\ nodes' = SelectSeq(nodes, LAMBDA n : n \notin S)
    /\ edges' = { e \in edges : e[1] \notin S /\ e[2] \notin S }
    /\ selected' = selected \ S
    /\ root' = IF root \in S THEN None ELSE root
    /\ position' = [n \in NodeIds |-> IF n \in S THEN Zero ELSE position[n]]
    /\ drag' = [n \in NodeIds |-> IF n \in S THEN NoDrag ELSE drag[n]]

\* a slip: the key moves the root to the selected node before it looks at the
\* root that is set
KeyPressR_Reselect ==
    /\ root' = IF Cardinality(selected) = 1
               THEN CHOOSE n \in selected : TRUE
               ELSE None
    /\ grabbed' = None
    /\ UNCHANGED <<nodes, edges, position, force, drag, selected, forces, mouse,
                   left, shift, space, created, ticks>>
    /\ UNCHANGED <<translation, scale, middle>>
    /\ UNCHANGED dockVars
    /\ UNCHANGED treeVars

\* Canvas.keyPressEvent, the key r
KeyPressR ==
    /\ root' = IF root # None THEN None
               ELSE IF Cardinality(selected) = 1
                    THEN CHOOSE n \in selected : TRUE
                    ELSE root
    /\ grabbed' = None
    /\ UNCHANGED <<nodes, edges, position, force, drag, selected, forces, mouse,
                   left, shift, space, created, ticks>>
    /\ UNCHANGED <<translation, scale, middle>>
    /\ UNCHANGED dockVars
    /\ UNCHANGED treeVars

\* a slip: the loop over the selection ends after its first node
KeyPressDelete_First ==
    /\ RemoveNodes(IF selected = {} THEN {}
                   ELSE {CHOOSE n \in selected : TRUE})
    /\ grabbed' = None
    /\ UNCHANGED <<force, forces, mouse, left, shift, space, created, ticks>>
    /\ UNCHANGED <<translation, scale, middle>>
    /\ UNCHANGED dockVars
    /\ UNCHANGED treeVars

\* Canvas.keyPressEvent, the key delete
KeyPressDelete ==
    /\ RemoveNodes(selected)
    /\ grabbed' = None
    /\ UNCHANGED <<force, forces, mouse, left, shift, space, created, ticks>>
    /\ UNCHANGED <<translation, scale, middle>>
    /\ UNCHANGED dockVars
    /\ UNCHANGED treeVars

\* Canvas.keyPressEvent, the key shift
KeyPressShift ==
    /\ ~shift
    /\ shift' = TRUE
    /\ drag' = IF left THEN StartShiftDraggingNodes(drag, selected) ELSE drag
    /\ grabbed' = None
    /\ UNCHANGED <<nodes, edges, position, force, selected, root, forces, mouse,
                   left, space, created, ticks>>
    /\ UNCHANGED <<translation, scale, middle>>
    /\ UNCHANGED dockVars
    /\ UNCHANGED treeVars

\* Canvas.keyReleaseEvent, the key shift
KeyReleaseShift ==
    /\ shift
    /\ shift' = FALSE
    /\ drag' = StopShiftDraggingNodes(drag, selected)
    /\ grabbed' = None
    /\ UNCHANGED <<nodes, edges, position, force, selected, root, forces, mouse,
                   left, space, created, ticks>>
    /\ UNCHANGED <<translation, scale, middle>>
    /\ UNCHANGED dockVars
    /\ UNCHANGED treeVars

\* Canvas.keyPressEvent, the key space
KeyPressSpace ==
    /\ ~space
    /\ space' = TRUE
    /\ grabbed' = None
    /\ UNCHANGED <<nodes, edges, position, force, drag, selected, root, forces,
                   mouse, left, shift, created, ticks>>
    /\ UNCHANGED <<translation, scale, middle>>
    /\ UNCHANGED dockVars
    /\ UNCHANGED treeVars

\* Canvas.keyReleaseEvent, the key space
KeyReleaseSpace ==
    /\ space
    /\ space' = FALSE
    /\ grabbed' = None
    /\ UNCHANGED <<nodes, edges, position, force, drag, selected, root, forces,
                   mouse, left, shift, created, ticks>>
    /\ UNCHANGED <<translation, scale, middle>>
    /\ UNCHANGED dockVars
    /\ UNCHANGED treeVars

\* Canvas.set_forces(value)
SetForces(value) ==
    /\ forces # value
    /\ forces' = value
    /\ grabbed' = None
    /\ UNCHANGED <<nodes, edges, position, force, drag, selected, root, mouse,
                   left, shift, space, created, ticks>>
    /\ UNCHANGED <<translation, scale, middle>>
    /\ UNCHANGED dockVars
    /\ UNCHANGED treeVars

(***************************************************************************)
(* Transformation (utilities.py).  A pixel is Unit model units.            *)
(***************************************************************************)
\* <<canvas.width(), canvas.height()>>, the size of the widget
CanvasSize == <<400 * Unit, 300 * Unit>>

\* the default of center_smoothness, 0.3
center_smoothness == Div(3 * Unit, 10)

\* Transformation.apply(point)
Apply(point) == VDivInt(VSub(point, translation), scale)

\* Transformation.inverse(point)
Inverse(point) == VAdd(<<point[1] * scale, point[2] * scale>>, translation)

\* a slip: the middle of the canvas is scaled, but not translated
CenterWith_Untranslated(point, smoothness) ==
    LET middle_point == VDivInt(VDivInt(CanvasSize, 2), scale)
    IN  Inverse(VMul(VSub(middle_point, point), smoothness))

\* Transformation.center(point, center_smoothness): the translation it sets
CenterWith(point, smoothness) ==
    LET middle_point == Apply(VDivInt(CanvasSize, 2))
    IN  Inverse(VMul(VSub(middle_point, point), smoothness))

\* Transformation.center(point), with the default of center_smoothness
Center(point) == CenterWith(point, center_smoothness)

\* a call of Transformation.center(point, smoothness)
CenterCall(point, smoothness) ==
    /\ translation' = CenterWith(point, smoothness)
    /\ UNCHANGED <<nodes, edges, position, force, drag, selected, root, forces,
                   mouse, left, shift, space, created, ticks, grabbed, scale, middle>>
    /\ UNCHANGED dockVars
    /\ UNCHANGED treeVars

\* Transformation.zoom(position, delta): the scale it sets; factor is 2 ** delta
ZoomScale(factor) == Div(scale * factor, Unit)

\* Transformation.zoom(position, delta): the translation it sets
ZoomTranslation(pivot, factor) ==
    LET previous_scale == scale
        new_scale == ZoomScale(factor)
    IN  VSub(translation, <<pivot[1] * (new_scale - previous_scale),
                            pivot[2] * (new_scale - previous_scale)>>)

(***************************************************************************)
(* Canvas.wheelEvent.  The wheel is turned by a quarter of a turn at once, *)
(* in either direction: event.angleDelta().y() / 8 is 90 or -90 degrees.   *)
(***************************************************************************)
WheelAngles == {-90, 90}

\* cos and sin of the angle, and 2 ** radians(angle), as fixed-point numbers
Cos(angle) == 0
Sin(angle) == IF angle > 0 THEN Unit ELSE -Unit
Pow2(angle) == IF angle > 0 THEN Div(297 * Unit, 100) ELSE Div(34 * Unit, 100)

\* Vector.__rotated(angle, vector)
Rotate(angle, vector) ==
    <<Div(vector[1] * Cos(angle), Unit) - Div(vector[2] * Sin(angle), Unit),
      Div(vector[1] * Sin(angle), Unit) + Div(vector[2] * Cos(angle), Unit)>>

\* Vector.rotated(angle, point)
Rotated(v, angle, point) == VAdd(Rotate(angle, VSub(v, point)), point)

\* the nodes of a set as a list, in the order of graph.get_nodes()
ListOf(S) == SelectSeq(nodes, LAMBDA n : n \in S)

\* the average position of the selected nodes
SelectedAverage ==
    LET ns == ListOf(selected)
    IN  Average([i \in 1 .. Len(ns) |-> position[ns[i]]])

\* a slip: every node of the graph is rotated
RotateAbout_Everything(S, angle, pivot) ==
    [n \in NodeIds |-> IF n \in NodeSet THEN Rotated(position[n], angle, pivot)
                       ELSE position[n]]

\* Canvas.rotate_about(nodes, angle, pivot): the positions it sets
RotateAbout(S, angle, pivot) ==
    [n \in NodeIds |-> IF n \in S THEN Rotated(position[n], angle, pivot)
                       ELSE position[n]]

\* a slip: the zoom is anchored at the pointer while space is held, too
ZoomPivot_Pointer == mouse

\* the pivot of the zoom of wheelEvent
ZoomPivot == IF space /\ selected # {} THEN SelectedAverage ELSE mouse

\* Canvas.wheelEvent
Wheel(angle) ==
    /\ IF shift
       THEN /\ position' = IF selected # {}
                           THEN RotateAbout(GetWeaklyConnected(selected), angle,
                                            SelectedAverage)
                           ELSE position
            /\ UNCHANGED <<scale, translation>>
       ELSE /\ scale' = ZoomScale(Pow2(angle))
            /\ translation' = ZoomTranslation(ZoomPivot, Pow2(angle))
            /\ MinScale <= scale' /\ scale' <= MaxScale
            /\ InView(translation')
            /\ UNCHANGED position
    /\ grabbed' = None
    /\ UNCHANGED <<nodes, edges, force, drag, selected, root, forces, mouse, left,
                   shift, space, created, ticks, middle>>
    /\ UNCHANGED dockVars
    /\ UNCHANGED treeVars

(***************************************************************************)
(* Canvas.update: one tick of the simulation.                              *)
(***************************************************************************)
\* Canvas.repulsion(distance) = (1 / distance) ** 2
Repulsion(d) == Div(Unit * Unit * Unit, d * d)

\* Canvas.attraction(distance) = -(distance - 6) / 3
Attraction(d) == Div(-(d - 6 * Unit), 3)

\* Canvas.tree(v) = v * 0.3
Tree(v) == <<Div(v[1] * 3, 10), Div(v[2] * 3, 10)>>

\* Canvas.gravity() = Vector(0, 0.1)
Gravity == <<0, Div(Unit, 10)>>

\* Python's True, which is no node
BoolTrue == MaxNodes + 1

\* the value "root := self.graph.get_root() is not None and self.forces" binds
\* to the local root of update: the boolean of the test (None stands for False)
UpdateRoot == IF root # None /\ forces THEN BoolTrue ELSE None

\* graph.get_distance_from_root(): the layers of the breadth-first search from
\* the root, layer 0 first
RECURSIVE LayersFrom(_, _)
LayersFrom(frontier, seen) ==
    IF frontier = {} THEN <<>>
    ELSE <<frontier>> \o LayersFrom(Neighbours(frontier, edges) \ (seen \cup frontier),
                                    seen \cup frontier)
GetDistanceFromRoot == IF root = None THEN <<>> ELSE LayersFrom({root}, {})

\* node.add_force(force), on the forces f
AddForce(f, n, v) == [f EXCEPT ![n] = VAdd(f[n], v)]

\* update, lines 75-78: the gravity added to the node n; the local root of
\* update is the value the test of line 61 has bound to it
GravityOf(n) ==
    IF n # UpdateRoot /\ WeaklyConnected(n, UpdateRoot) THEN Gravity ELSE Zero

\* update, lines 61-78: the forces of the layers and the gravity, added to the
\* forces of the nodes
RootedForces ==
    IF UpdateRoot = None THEN force
    ELSE LET distances == GetDistanceFromRoot
             pivot == [k \in 1 .. Len(distances) |->
                         LET layer == ListOf(distances[k])
                         IN  Average([i \in 1 .. Len(layer) |-> position[layer[i]]])]
             layered == [n \in NodeIds |->
                           IF \E k \in 1 .. Len(distances) : n \in distances[k]
                           THEN LET k == CHOOSE k \in 1 .. Len(distances) : n \in distances[k]
                                IN  Tree(<<0, pivot[k][2] - position[n][2]>>)
                           ELSE Zero]
         IN  [n \in NodeIds |->
                IF n \notin NodeSet THEN force[n]
                ELSE VAdd(VAdd(force[n], layered[n]), GravityOf(n))]

\* a slip: the attraction is added only for a vertex from n1 to n2
ConnectedPairForces_OneOrientation(st, n1, n2, nudge) ==
    LET d == Distance(st.pos[n1], st.pos[n2])
    IN  IF d = 0
        THEN [st EXCEPT !.f = AddForce(st.f, n1, nudge)]
        ELSE LET uv == UnitVector(VSub(st.pos[n2], st.pos[n1]))
                 fr == Repulsion(d)
                 f1 == AddForce(AddForce(st.f, n1, VMul(VNeg(uv), fr)),
                                n2, VMul(uv, fr))
                 fa == Attraction(d)
             IN  IF IsVertex(edges, n1, n2)
                 THEN [st EXCEPT !.f = AddForce(AddForce(f1, n1, VMul(VNeg(uv), fa)),
                                                n2, VMul(uv, fa))]
                 ELSE [st EXCEPT !.f = f1]

\* update, lines 88-111: the forces of a weakly connected pair n1, n2 added to
\* st; nudge is the vector Vector(random(), random()) drawn for the pair
ConnectedPairForces(st, n1, n2, nudge) ==
    LET d == Distance(st.pos[n1], st.pos[n2])
    IN  IF d = 0
        THEN [st EXCEPT !.f = AddForce(st.f, n1, nudge)]
        ELSE LET uv == UnitVector(VSub(st.pos[n2], st.pos[n1]))
                 fr == Repulsion(d)
                 f1 == AddForce(AddForce(st.f, n1, VMul(VNeg(uv), fr)),
                                n2, VMul(uv, fr))
                 fa == Attraction(d)
             IN  IF IsVertex(edges, n1, n2) \/ IsVertex(edges, n2, n1)
                 THEN [st EXCEPT !.f = AddForce(AddForce(f1, n1, VMul(VNeg(uv), fa)),
                                                n2, VMul(uv, fa))]
                 ELSE [st EXCEPT !.f = f1]

\* a slip: the forces act on every pair, weakly connected or not
PairForces_EveryPair(st, n1, n2, nudge) == ConnectedPairForces(st, n1, n2, nudge)

\* update, lines 84-111: the body of the loop over the pairs
PairForces(st, n1, n2, nudge) ==
    IF ~WeaklyConnected(n1, n2) THEN st
    ELSE ConnectedPairForces(st, n1, n2, nudge)

\* a slip: the forces move a dragged node as they move any other
EvaluateForces_Dragged(st, n) ==
    [pos |-> [st.pos EXCEPT ![n] = VAdd(st.pos[n], st.f[n])],
     f |-> [st.f EXCEPT ![n] = Zero]]

\* node.evaluate_forces(): a dragged node ignores its forces
EvaluateForces(st, n) ==
    [pos |-> IF IsDragged(drag, n) THEN st.pos
             ELSE [st.pos EXCEPT ![n] = VAdd(st.pos[n], st.f[n])],
     f |-> [st.f EXCEPT ![n] = Zero]]

\* node.clear_forces()
ClearForces(st, n) == [st EXCEPT !.f = [st.f EXCEPT ![n] = Zero]]

\* the vector drawn for the pair n1, n2
Drawn(r, n1, n2) == IF <<n1, n2>> \in DOMAIN r THEN r[<<n1, n2>>] ELSE Zero

\* a slip: the loop of the i-th node runs over every other node, the nodes
\* before it included, which have been evaluated already
RECURSIVE InnerLoop_Every(_, _, _, _)
InnerLoop_Every(st, i, j, r) ==
    IF j > Len(nodes) THEN st
    ELSE IF j = i THEN InnerLoop_Every(st, i, j + 1, r)
    ELSE InnerLoop_Every(PairForces(st, nodes[i], nodes[j], Drawn(r, nodes[i], nodes[j])),
                         i, j + 1, r)
InnerLoop_FromFirst(st, i, j, r) == InnerLoop_Every(st, i, 1, r)

\* update, lines 83-111: the loop over the nodes after the i-th, from the j-th on
RECURSIVE InnerLoop(_, _, _, _)
InnerLoop(st, i, j, r) ==
    IF j > Len(nodes) THEN st
    ELSE InnerLoop(PairForces(st, nodes[i], nodes[j], Drawn(r, nodes[i], nodes[j])),
                   i, j + 1, r)

\* update, lines 113-117
Special(st, n1) ==
    IF n1 = UpdateRoot THEN ClearForces(st, n1) ELSE EvaluateForces(st, n1)

\* a slip: the forces of a node are evaluated before the loop over the nodes
\* after it has added its forces
RECURSIVE OuterLoop_EvaluateFirst(_, _, _)
OuterLoop_EvaluateFirst(st, i, r) ==
    IF i > Len(nodes) THEN st
    ELSE OuterLoop_EvaluateFirst(InnerLoop(Special(st, nodes[i]), i, i + 1, r),
                                 i + 1, r)

\* update, lines 82-117: the loop over the nodes, from the i-th on
RECURSIVE OuterLoop(_, _, _)
OuterLoop(st, i, r) ==
    IF i > Len(nodes) THEN st
    ELSE OuterLoop(Special(InnerLoop(st, i, i + 1, r), nodes[i]), i + 1, r)

\* the pairs n1, n2 of the loop that lie on top of each other and are weakly
\* connected: Vector(random(), random()) is drawn for each of them
Coincident ==
    { pr \in { <<nodes[i], nodes[j]>> : i, j \in 1 .. Len(nodes) } :
        /\ \E i, j \in 1 .. Len(nodes) : i < j /\ pr = <<nodes[i], nodes[j]>>
        /\ position[pr[1]] = position[pr[2]]
        /\ WeaklyConnected(pr[1], pr[2]) }

\* the vectors Vector(random(), random()) of the model: both draws 0, and both
\* draws the largest value below 1
Nudges == { <<0, 0>>, <<Unit - 1, Unit - 1>> }
Draws == [Coincident -> Nudges]

\* a slip: the flag forces is not tested before the nodes are moved
Update_ForcesOn(r) == OuterLoop([pos |-> position, f |-> RootedForces], 1, r)

\* update: the positions and forces after the tick, with the vectors r drawn
Update(r) ==
    IF forces THEN OuterLoop([pos |-> position, f |-> RootedForces], 1, r)
    ELSE [pos |-> position, f |-> force]

\* update, lines 119-121: while space is held, the view is centered on the
\* selected nodes, at the positions pos
CenterOnSelected(pos) ==
    IF space /\ selected # {}
    THEN LET ns == ListOf(selected)
         IN  Center(Average([i \in 1 .. Len(ns) |-> pos[ns[i]]]))
    ELSE translation

\* Canvas.update
Tick(r) ==
    /\ ticks' = ticks + 1
    /\ LET st == Update(r)
       IN  /\ position' = st.pos
           /\ force' = st.f
           /\ translation' = CenterOnSelected(st.pos)
    /\ grabbed' = None
    /\ UNCHANGED <<nodes, edges, drag, selected, root, forces, mouse, left, shift,
                   space, created, scale, middle>>
    /\ UNCHANGED dockVars
    /\ UNCHANGED treeVars

(***************************************************************************)
(* Canvas.import_graph and Canvas.export_graph.                            *)
(***************************************************************************)
\* the graphs DrawableGraph.from_string parses from the files of the model: the
\* positions of their nodes, their vertices and their flag directed
ImportedGraphs ==
    { [pos |-> <<>>, edges |-> {}, directed |-> FALSE],
      [pos |-> <<<<Step, 0>>>>, edges |-> {}, directed |-> FALSE],
      [pos |-> <<Zero, <<Step, 2 * Step>>>>, edges |-> {<<1, 2>>}, directed |-> TRUE] }

\* what the dialog and the file of an import do: the dialog is cancelled, the
\* file cannot be read, its text does not parse (from_string returns None), or
\* it parses to a graph
ImportOutcomes ==
    { [kind |-> k, graph |-> g] :
         k \in {"cancelled", "unreadable", "unparsable"},
         g \in { [pos |-> <<>>, edges |-> {}, directed |-> FALSE] } }
    \cup { [kind |-> "parsed", graph |-> g] : g \in ImportedGraphs }

\* import_graph, lines 314-317: the view is centered on the average position of
\* the nodes at the positions pos; Vector.average of no vectors raises IndexError
ImportCenter(ns, pos) ==
    IF ns = <<>>
    THEN raised' = TRUE /\ UNCHANGED translation
    ELSE /\ raised' = FALSE
         /\ translation' = CenterWith(Average([i \in 1 .. Len(ns) |-> pos[ns[i]]]), Unit)

\* Canvas.import_graph
Import(outcome) ==
    /\ reported' = FALSE
    /\ acted' = None
    /\ grabbed' = None
    /\ CASE outcome.kind = "cancelled" ->
              /\ raised' = FALSE
              /\ UNCHANGED <<nodes, edges, position, force, drag, selected, root,
                             created, held, directed, translation>>
         [] outcome.kind = "unreadable" ->
              /\ raised' = TRUE
              /\ UNCHANGED <<nodes, edges, position, force, drag, selected, root,
                             created, held, directed, translation>>
         [] outcome.kind = "unparsable" ->
              /\ ImportCenter(nodes, position)
              /\ UNCHANGED <<nodes, edges, position, force, drag, selected, root,
                             created, held, directed>>
         [] outcome.kind = "parsed" ->
              LET g == outcome.graph
                  ns == [i \in 1 .. Len(g.pos) |-> i]
                  pos == [n \in NodeIds |-> IF n <= Len(g.pos) THEN g.pos[n] ELSE Zero]
              IN  /\ held < MaxImports + 1
                  /\ held' = held + 1
                  /\ nodes' = ns
                  /\ edges' = g.edges
                  /\ position' = pos
                  /\ force' = [n \in NodeIds |-> Zero]
                  /\ drag' = [n \in NodeIds |-> NoDrag]
                  /\ selected' = {}
                  /\ root' = None
                  /\ created' = Len(g.pos)
                  /\ directed' = g.directed
                  /\ ImportCenter(ns, pos)
    /\ UNCHANGED <<forces, mouse, left, shift, space, ticks, scale, middle, file>>
    /\ UNCHANGED treeVars

\* what the dialog and the file of an export do: the dialog is cancelled, the
\* file is written, open fails, or the write fails after open has created the
\* file; existed tells whether there was a file at the path before
ExportOutcomes ==
    { [kind |-> k, existed |-> e] :
         k \in {"cancelled", "written", "open fails", "write fails"},
         e \in BOOLEAN }

\* Canvas.export_graph
Export(outcome) ==
    /\ grabbed' = None
    /\ CASE outcome.kind = "cancelled" ->
              /\ raised' = FALSE /\ reported' = FALSE
              /\ file' = IF outcome.existed THEN "old" ELSE "absent"
         [] outcome.kind = "written" ->
              /\ raised' = FALSE /\ reported' = FALSE
              /\ file' = "written"
         [] outcome.kind = "open fails" ->
              \* os.remove(path) removes the file that was there before, and
              \* raises FileNotFoundError if there was none
              /\ reported' = TRUE
              /\ raised' = ~outcome.existed
              /\ file' = "absent"
         [] outcome.kind = "write fails" ->
              /\ reported' = TRUE
              /\ raised' = FALSE
              /\ file' = "absent"
    /\ UNCHANGED <<nodes, edges, position, force, drag, selected, root, forces,
                   mouse, left, shift, space, created, ticks, translation, scale,
                   middle, held, acted, directed>>
    /\ UNCHANGED treeVars

(***************************************************************************)
(* The settings dock of GraphVisualizer.                                   *)
(***************************************************************************)
\* the graph object the buttons complement and reorient are bound to: the bound
\* methods of the graph the canvas holds when the window is built
ButtonGraph == 1

\* graph.complement(): the vertices of the complement
ComplementOf(E) ==
    { <<a, b>> \in NodeSet \X NodeSet :
         a < b /\ ~IsVertex(E, a, b) /\ ~IsVertex(E, b, a) }

\* graph.reorient(): every vertex turned around
ReorientOf(E) == { <<e[2], e[1]>> : e \in E }

\* the button complement
Complement ==
    /\ acted' = ButtonGraph
    /\ edges' = IF held = ButtonGraph THEN ComplementOf(edges) ELSE edges
    /\ grabbed' = None
    /\ UNCHANGED <<nodes, position, force, drag, selected, root, forces, mouse,
                   left, shift, space, created, ticks, translation, scale, middle,
                   held, directed, raised, reported, file>>
    /\ UNCHANGED treeVars

\* the button reorient
Reorient ==
    /\ acted' = ButtonGraph
    /\ edges' = IF held = ButtonGraph THEN ReorientOf(edges) ELSE edges
    /\ grabbed' = None
    /\ UNCHANGED <<nodes, position, force, drag, selected, root, forces, mouse,
                   left, shift, space, created, ticks, translation, scale, middle,
                   held, directed, raised, reported, file>>
    /\ UNCHANGED treeVars

\* the check box directed: canvas.get_graph().set_directed(value)
SetDirected(value) ==
    /\ acted' = held
    /\ directed' = value
    /\ grabbed' = None
    /\ UNCHANGED <<nodes, edges, position, force, drag, selected, root, forces,
                   mouse, left, shift, space, created, ticks, translation, scale,
                   middle, held, raised, reported, file>>
    /\ UNCHANGED treeVars

(***************************************************************************)
(* TreeVisualizer (src/__main__.py), the first version of the program.     *)
(* Positions are pixels; a pixel is Unit model units.                      *)
(***************************************************************************)
\* the positions of the pointer on the canvas of the TreeVisualizer
TreeStep == 50 * Unit
TreePoints == { <<x * TreeStep, 0>> : x \in 0 .. MaxGrid + 1 }

\* TreeVisualizer.node_radius = 20
node_radius == 20 * Unit

\* TreeVisualizer.repulsion_force_function = lambda x: 1 / x * 10
repulsion_force_function(x) == Div(10 * Unit * Unit, x)

\* TreeVisualizer.attraction_force_function = lambda x, d=80: 0 if x <= d else -(x - d) / 10
attraction_force_function(x) == IF x <= 80 * Unit THEN 0 ELSE Div(-(x - 80 * Unit), 10)

\* mousePressEvent, lines 138-143: the first node of the graph the press hits
PressedNode(p) ==
    LET hit == { i \in 1 .. Len(tnodes) : Dist2(p, tnodes[i]) <= node_radius * node_radius }
    IN  IF hit = {} THEN None ELSE CHOOSE i \in hit : \A j \in hit : i <= j

\* graph.does_vertice_exist(n1, n2) on a graph that is not oriented
DoesVerticeExist(n1, n2) == <<n1, n2>> \in tedges \/ <<n2, n1>> \in tedges

\* TreeVisualizer.mousePressEvent, the left button
TreePressLeft(p) ==
    /\ ~failed
    /\ LET pressed_node == PressedNode(p)
       IN  IF pressed_node # None
           THEN /\ selected_node' = pressed_node
                /\ mouse_drag_offset' = VSub(p, tnodes[pressed_node])
                /\ mouse_xy' = p
           ELSE UNCHANGED <<selected_node, mouse_drag_offset, mouse_xy>>
    /\ UNCHANGED <<tnodes, tedges, iterations, failed>>
    /\ UNCHANGED canvasVars

\* TreeVisualizer.mousePressEvent, another button
TreePressRight(p) ==
    /\ ~failed
    /\ LET pressed_node == PressedNode(p)
           node == Len(tnodes) + 1
       IN  IF pressed_node # None
           THEN /\ tedges' = IF pressed_node = selected_node THEN tedges
                             ELSE IF DoesVerticeExist(selected_node, pressed_node)
                                  THEN tedges \ {<<selected_node, pressed_node>>,
                                                 <<pressed_node, selected_node>>}
                                  ELSE tedges \cup {<<selected_node, pressed_node>>}
                /\ UNCHANGED <<tnodes, selected_node>>
           ELSE /\ Len(tnodes) < MaxNodes
                /\ tnodes' = Append(tnodes, p)
                /\ tedges' = IF selected_node # None
                             THEN tedges \cup {<<selected_node, node>>}
                             ELSE tedges
                /\ selected_node' = node
    /\ UNCHANGED <<mouse_drag_offset, mouse_xy, iterations, failed>>
    /\ UNCHANGED canvasVars

\* TreeVisualizer.mouseReleaseEvent
TreeRelease ==
    /\ ~failed
    /\ mouse_drag_offset # NoDrag
    /\ mouse_drag_offset' = NoDrag
    /\ UNCHANGED <<tnodes, tedges, selected_node, mouse_xy, iterations, failed>>
    /\ UNCHANGED canvasVars

\* TreeVisualizer.mouseMoveEvent
TreeMove(p) ==
    /\ ~failed
    /\ p # mouse_xy
    /\ mouse_xy' = p
    /\ UNCHANGED <<tnodes, tedges, selected_node, mouse_drag_offset, iterations, failed>>
    /\ UNCHANGED canvasVars

\* perform_simulation_iteration, lines 212-230: the forces of the pair n1, n2
\* added to st; the division by a distance of 0 raises ZeroDivisionError
IterationPair(st, n1, n2) ==
    IF st.failed THEN st
    ELSE LET d == Distance(st.pos[n1], st.pos[n2])
         IN  IF d = 0 THEN [st EXCEPT !.failed = TRUE]
             ELSE LET n == <<Div((st.pos[n2][1] - st.pos[n1][1]) * Unit, d),
                             Div((st.pos[n2][2] - st.pos[n1][2]) * Unit, d)>>
                      fr == repulsion_force_function(d)
                      f1 == AddForce(AddForce(st.f, n1, VMul(VNeg(n), fr)),
                                     n2, VMul(n, fr))
                      fa == attraction_force_function(d)
                  IN  IF DoesVerticeExist(n1, n2)
                      THEN [st EXCEPT !.f = AddForce(AddForce(f1, n1, VMul(VNeg(n), fa)),
                                                     n2, VMul(n, fa))]
                      ELSE [st EXCEPT !.f = f1]

\* perform_simulation_iteration, lines 209-230: the loop over j
RECURSIVE IterationInner(_, _, _)
IterationInner(st, i, j) ==
    IF j > Len(st.pos) THEN st
    ELSE IterationInner(IterationPair(st, i, j), i, j + 1)

\* node.evaluate_forces() of the TreeVisualizer's graph: the force moves the node
IterationEvaluate(st, n) ==
    IF st.failed THEN st
    ELSE [st EXCEPT !.pos = [st.pos EXCEPT ![n] = VAdd(st.pos[n], st.f[n])],
                    !.f = [st.f EXCEPT ![n] = Zero]]

\* perform_simulation_iteration, lines 207-233: the loop over i
RECURSIVE IterationOuter(_, _)
IterationOuter(st, i) ==
    IF i > Len(st.pos) THEN st
    ELSE IterationOuter(IterationEvaluate(IterationInner(st, i, i + 1), i), i + 1)

\* TreeVisualizer.perform_simulation_iteration
PerformSimulationIteration ==
    /\ ~failed
    /\ iterations < MaxIterations
    /\ iterations' = iterations + 1
    /\ LET st == IterationOuter([pos |-> tnodes,
                                 f |-> [i \in 1 .. Len(tnodes) |-> Zero],
                                 failed |-> FALSE], 1)
       IN  /\ failed' = st.failed
           /\ tnodes' = IF ~st.failed /\ selected_node # None /\ mouse_drag_offset # NoDrag
                        THEN [st.pos EXCEPT ![selected_node] =
                                                VSub(mouse_xy, mouse_drag_offset)]
                        ELSE st.pos
    /\ UNCHANGED <<tedges, selected_node, mouse_drag_offset, mouse_xy>>
    /\ UNCHANGED canvasVars

Next ==
    \/ \E p \in MousePoints : MouseMove(p)
    \/ MousePressLeft
    \/ MouseReleaseLeft
    \/ MousePressRight
    \/ KeyPressDelete
    \/ KeyPressShift
    \/ KeyReleaseShift

Spec == Init /\ [][Next]_vars

\* the canvas with the key r: nodes are created, connected, selected, dragged,
\* deleted and made the root
NextRoot ==
    \/ Next
    \/ KeyPressR

SpecRoot == Init /\ [][NextRoot]_vars

\* the canvas with its simulation: nodes are created, connected, selected, dragged
\* and made the root, and then the timer ticks up to MaxTicks times
NextTick ==
    \/ ticks = 0 /\ \E p \in MousePoints : MouseMove(p)
    \/ ticks = 0 /\ MousePressLeft
    \/ ticks = 0 /\ MouseReleaseLeft
    \/ ticks = 0 /\ MousePressRight
    \/ ticks = 0 /\ KeyPressR
    \/ ticks < MaxTicks /\ \E r \in Draws : Tick(r)

SpecTick == Init /\ [][NextTick]_vars

\* the canvas with its timer running: nodes are created, connected, deleted and
\* made the root, the forces are switched and space is held between the ticks
NextSim ==
    \/ \E p \in MousePoints : MouseMove(p)
    \/ MousePressRight
    \/ KeyPressR
    \/ KeyPressDelete
    \/ \E value \in BOOLEAN : SetForces(value)
    \/ KeyPressSpace
    \/ KeyReleaseSpace
    \/ ticks < MaxSimTicks /\ \E r \in Draws : Tick(r)

SpecSim == Init /\ [][NextSim]_vars

\* the canvas with nodes dragged under its simulation: nodes are created,
\* connected, selected and dragged, space is held and released, and then the
\* timer ticks up to MaxSimTicks times
NextDrag ==
    \/ ticks = 0 /\ \E p \in MousePoints : MouseMove(p)
    \/ ticks = 0 /\ MousePressLeft
    \/ ticks = 0 /\ MouseReleaseLeft
    \/ ticks = 0 /\ MousePressRight
    \/ ticks = 0 /\ KeyPressSpace
    \/ ticks = 0 /\ KeyReleaseSpace
    \/ ticks < MaxSimTicks /\ \E r \in Draws : Tick(r)

SpecDrag == Init /\ [][NextDrag]_vars

\* the canvas with its view: nodes are created, connected, selected and dragged,
\* the view is dragged with the middle button, shift and space are held and
\* released, and then the timer ticks up to MaxTicks times
NextPan ==
    \/ ticks = 0 /\ \E p \in MousePoints : MouseMove(p)
    \/ ticks = 0 /\ MousePressLeft
    \/ ticks = 0 /\ MouseReleaseLeft
    \/ /\ ticks = 0
       /\ created < MaxViewNodes \/ NodeAtPosition(mouse) # None
       /\ MousePressRight
    \/ ticks = 0 /\ MousePressMiddle
    \/ ticks = 0 /\ MouseReleaseMiddle
    \/ ticks = 0 /\ KeyPressShift
    \/ ticks = 0 /\ KeyReleaseShift
    \/ ticks = 0 /\ KeyPressSpace
    \/ ticks = 0 /\ KeyReleaseSpace
    \/ ticks < MaxTicks /\ \E r \in Draws : Tick(r)

SpecPan == Init /\ [][NextPan]_vars

\* the canvas with the wheel turned while shift is held: nodes are created,
\* connected, selected and deleted, and the wheel rotates them
NextRotate ==
    \/ \E p \in MousePoints : MouseMove(p)
    \/ MousePressRight
    \/ KeyPressDelete
    \/ KeyPressShift
    \/ KeyReleaseShift
    \/ shift /\ \E angle \in WheelAngles : Wheel(angle)

SpecRotate == Init /\ [][NextRotate]_vars

\* the canvas with the wheel turned while shift is not held: nodes are created,
\* connected and selected, space is held and released, and the wheel zooms the view
NextZoom ==
    \/ \E p \in MousePoints : MouseMove(p)
    \/ MousePressRight
    \/ KeyPressShift
    \/ KeyReleaseShift
    \/ KeyPressSpace
    \/ KeyReleaseSpace
    \/ ~shift /\ \E angle \in WheelAngles : Wheel(angle)

SpecZoom == Init /\ [][NextZoom]_vars

\* the Transformation by itself: center is called with any point and smoothness,
\* from any scale and translation of the model
ViewScales == {InitialScale, 49}
ViewTranslations ==
    { <<x, y>> : x, y \in { -7, 0, MaxPan * Step * InitialScale } }
CenterPoints == { Zero, <<15, -7>>, <<-2 * Step, 4 * Step>> }
Smoothnesses == { 0, center_smoothness, Div(Unit, 2), Unit }

InitCenter ==
    /\ InitGraph
    /\ translation \in ViewTranslations
    /\ scale \in ViewScales

NextCenter ==
    \E point \in CenterPoints, smoothness \in Smoothnesses :
       CenterCall(point, smoothness)

SpecCenter == InitCenter /\ [][NextCenter]_vars

\* the window with its menu and its dock: nodes are created and connected, graphs
\* are imported and exported, and the actions of the dock are used
NextFile ==
    \/ \E p \in MousePoints : MouseMove(p)
    \/ MousePressRight
    \/ \E outcome \in ImportOutcomes : Import(outcome)
    \/ \E outcome \in ExportOutcomes : Export(outcome)
    \/ Complement
    \/ Reorient
    \/ \E value \in BOOLEAN : SetDirected(value)

SpecFile == Init /\ [][NextFile]_vars

\* the TreeVisualizer: its mouse events, and then up to MaxIterations iterations
\* of its timer
NextTree ==
    \/ iterations = 0 /\ \E p \in TreePoints : TreePressLeft(p)
    \/ iterations = 0 /\ \E p \in TreePoints : TreePressRight(p)
    \/ iterations = 0 /\ TreeRelease
    \/ iterations = 0 /\ \E p \in TreePoints : TreeMove(p)
    \/ PerformSimulationIteration

SpecTree == Init /\ [][NextTree]_vars

(***************************************************************************)
(* The steps of the handlers, told by what they change.                    *)
(***************************************************************************)
LeftPressStep == ~left /\ left'
LeftReleaseStep == left /\ ~left'
ShiftReleaseStep == shift /\ ~shift'
PointerMoveStep == mouse' # mouse
TickStep == ticks' = ticks + 1

Dragging == { n \in NodeSet : IsDragged(drag, n) }

(***************************************************************************)
(* C1: after the release of the left button no node of the graph is in the *)
(* dragging state, whatever happened between the press and the release.    *)
(***************************************************************************)
C1_ReleaseStopsEveryDrag ==
    [][LeftReleaseStep => \A n \in NodeSet' : ~IsDragged(drag', n)]_vars

(***************************************************************************)
(* C2: in every tick that runs while forces are enabled and a root is set, *)
(* the position of the root after the tick is its position before it.      *)
(***************************************************************************)
C2_RootNotMovedByTick ==
    [][(TickStep /\ forces /\ root # None) => position'[root] = position[root]]_vars

(***************************************************************************)
(* C3: for every pair of distinct nodes that are not weakly connected, the *)
(* pairwise step of a tick adds no force to either node on account of the  *)
(* pair, whatever vector is drawn; and a node that is weakly connected to  *)
(* no other node is not displaced by the tick, wherever the others lie.    *)
(***************************************************************************)
C3_NoForceAcrossComponents ==
    [][TickStep =>
          /\ \A n1, n2 \in NodeSet : \A nudge \in Nudges :
                (n1 # n2 /\ ~WeaklyConnected(n1, n2)) =>
                   PairForces([pos |-> position, f |-> force], n1, n2, nudge).f = force
          /\ \A n \in NodeSet :
                GetWeaklyConnected({n}) = {n} => position'[n] = position[n]]_vars

C3_Witness ==
    /\ ticks = 1 /\ forces
    /\ \E n1, n2, n3 \in NodeSet :
          /\ n1 # n2 /\ n1 # n3 /\ n2 # n3
          /\ ~WeaklyConnected(n1, n2) /\ ~WeaklyConnected(n2, n3)
          /\ IsVertex(edges, n1, n3) \/ IsVertex(edges, n3, n1)
          /\ ~IsDragged(drag, n1) /\ ~IsDragged(drag, n2) /\ ~IsDragged(drag, n3)
          /\ position[n2] \in MousePoints
          /\ position[n1] \notin MousePoints
          /\ Distance(position[n1], position[n2]) < 2 * Step

(***************************************************************************)
(* C4: when two nodes lie at the same position, after one tick with forces *)
(* enabled the two have different positions, whatever vectors are drawn.   *)
(***************************************************************************)
C4_CoincidentNodesSeparated ==
    [][(TickStep /\ forces) =>
          \A n1, n2 \in NodeSet :
             (n1 # n2 /\ position[n1] = position[n2]) => position'[n1] # position'[n2]]_vars

(***************************************************************************)
(* C5: no tick raises an error: neither Canvas.update nor the iteration    *)
(* perform_simulation_iteration divides by a distance of 0.                *)
(***************************************************************************)
C5_TickNeverFails == ~failed

(***************************************************************************)
(* C6: after a left press on a node with shift held, a pointer move (space *)
(* not held) displaces the pressed node and every node weakly connected to *)
(* it by the pointer's delta, each keeping its offset, and leaves a node   *)
(* that is neither selected nor weakly connected to the selection in place.*)
(***************************************************************************)
C6_GroupDragMovesOnlyTheGroup ==
    [][(PointerMoveStep /\ grabbed # None /\ shift /\ ~space) =>
          \A n \in NodeSet :
             /\ n \in GetWeaklyConnected({grabbed}) =>
                   /\ position'[n] = VAdd(position[n], VSub(mouse', mouse))
                   /\ drag'[n] = drag[n]
                   /\ position'[n] = VSub(mouse', drag[n])
             /\ n \notin GetWeaklyConnected(selected) =>
                   position'[n] = position[n]]_vars

(***************************************************************************)
(* C7: a left press on a node with shift held leaves every node that is    *)
(* weakly connected to a selected node dragging, and selects the pressed   *)
(* node and nothing else in addition: no follower is selected.             *)
(***************************************************************************)
C7_ShiftPressDragsComponent ==
    [][(LeftPressStep /\ shift /\ NodeAtPosition(mouse) # None) =>
          /\ \A n \in GetWeaklyConnected(selected') : IsDragged(drag', n)
          /\ selected' = selected \cup {NodeAtPosition(mouse)}
          /\ \A n \in NodeSet :
                (n \notin selected /\ n # NodeAtPosition(mouse)) => n \notin selected']_vars

C7_Witness ==
    /\ grabbed # None /\ shift /\ left
    /\ \E n \in NodeSet \ selected :
          /\ n \in GetWeaklyConnected(selected)
          /\ ~(<<n, grabbed>> \in edges \/ <<grabbed, n>> \in edges)
          /\ IsDragged(drag, n)

(***************************************************************************)
(* C8: a left press on a node n selects exactly n without shift and adds n *)
(* to the selection with shift; every node selected afterwards is dragging.*)
(***************************************************************************)
C8_PressSelectsAndDrags ==
    [][(LeftPressStep /\ NodeAtPosition(mouse) # None) =>
          /\ ~shift => selected' = {NodeAtPosition(mouse)}
          /\ shift => selected' = selected \cup {NodeAtPosition(mouse)}
          /\ \A n \in selected' : drag'[n] = VSub(mouse, position[n])]_vars

C8_Witness ==
    /\ grabbed # None /\ shift /\ left
    /\ Cardinality(selected) >= 2
    /\ \A n \in selected : IsDragged(drag, n)

(***************************************************************************)
(* C9: a left press where no node lies empties the selection without shift *)
(* and leaves it unchanged with shift; no node starts to be dragged and    *)
(* the nodes and edges stay as they are.                                   *)
(***************************************************************************)
C9_PressOnEmptySpace ==
    [][(LeftPressStep /\ NodeAtPosition(mouse) = None) =>
          /\ ~shift => selected' = {}
          /\ shift => selected' = selected
          /\ drag' = drag
          /\ nodes' = nodes /\ edges' = edges]_vars

C9_Witness ==
    /\ left /\ shift /\ grabbed = None
    /\ NodeAtPosition(mouse) = None
    /\ selected # {}
    /\ Dragging = {}

(***************************************************************************)
(* C10: the release of shift during a drag stops the drag of exactly the   *)
(* dragging nodes that are not selected; the selected nodes keep dragging  *)
(* and the selection is unchanged.                                         *)
(***************************************************************************)
C10_ShiftReleaseStopsFollowers ==
    [][(ShiftReleaseStep /\ left /\ Dragging # {}) =>
          /\ \A n \in Dragging : n \notin selected => ~IsDragged(drag', n)
          /\ \A n \in Dragging : n \in selected => drag'[n] = drag[n]
          /\ selected' = selected]_vars

(***************************************************************************)
(* C11: a right press where no node lies, for every selection and with or  *)
(* without shift held, adds exactly one node at the position of the        *)
(* pointer, adds an edge from every selected node to it and no other edge, *)
(* and leaves exactly the new node selected.                               *)
(***************************************************************************)
C11_RightPressCreatesAndSelects ==
    [][(MousePressRight /\ NodeAtPosition(mouse) = None) =>
          LET new == created + 1
          IN  /\ nodes' = Append(nodes, new)
              /\ position' = [position EXCEPT ![new] = mouse]
              /\ edges' = edges \cup { <<s, new>> : s \in selected }
              /\ selected' = {new}]_vars

(***************************************************************************)
(* The edge between a and b, in either orientation.                        *)
(***************************************************************************)
Linked(E, a, b) == IsVertex(E, a, b) \/ IsVertex(E, b, a)
Links(E) == { {e[1], e[2]} : e \in E }

C13_NoSelfLoops == \A e \in edges : e[1] # e[2]

\* the pointer is on a selected node t, and an edge that a right press on t has
\* added leads to t from another selected node
C13_Witness ==
    \E t \in selected :
       /\ NodeAtPosition(mouse) = t
       /\ \E e \in edges : e[2] = t /\ e[1] > t /\ e[1] \in selected

(***************************************************************************)
(* C14: the key r unsets a root that is set, whatever the selection is;    *)
(* with no root set it makes the node the root that is the only selected   *)
(* one, and leaves the root unset for any other selection.  The key        *)
(* changes no node, edge, selection or drag state.                         *)
(***************************************************************************)
C14_RootToggle ==
    [][KeyPressR =>
          /\ (root # None) => (root' = None)
          /\ (root = None /\ Cardinality(selected) = 1) => (root' \in selected)
          /\ (root = None /\ Cardinality(selected) # 1) => (root' = None)
          /\ UNCHANGED <<nodes, edges, position, selected, drag>>]_vars

\* a root is set while several nodes are selected, one of them dragged
C14_Witness ==
    /\ root # None
    /\ Cardinality(selected) >= 2
    /\ Dragging # {}

(***************************************************************************)
(* C15: in every reachable state the root, if set, is a node of the graph. *)
(***************************************************************************)
C15_RootExists == root = None \/ root \in NodeSet

\* nodes have been deleted, and the root that is set is selected: the next
\* delete key removes it
C15_Witness ==
    /\ Len(nodes) < created
    /\ root # None
    /\ root \in selected

(***************************************************************************)
(* C16: the delete key removes exactly the selected nodes from the graph;  *)
(* afterwards no edge has a removed node as an endpoint, and no removed    *)
(* node is selected.                                                       *)
(***************************************************************************)
C16_DeleteRemovesTheSelection ==
    [][KeyPressDelete =>
          /\ NodeSet' = NodeSet \ selected
          /\ \A e \in edges' : e[1] \in NodeSet' /\ e[2] \in NodeSet'
          /\ \A e \in edges : (e[1] \notin selected /\ e[2] \notin selected) =>
                                 e \in edges'
          /\ selected' \cap selected = {}]_vars

\* several selected nodes with an edge to a node that is not selected
C16_Witness ==
    /\ Cardinality(selected) >= 2
    /\ \E e \in edges : e[1] \in selected /\ e[2] \notin selected

(***************************************************************************)
(* C17: in every tick with forces enabled and a root set, the gravity is   *)
(* added once to every node that is weakly connected to the root and is    *)
(* not the root, and to no other node.                                     *)
(***************************************************************************)
C17_GravityOnTheRootsComponent ==
    [][(TickStep /\ forces /\ root # None) =>
          \A n \in NodeSet :
             GravityOf(n) = IF n # root /\ WeaklyConnected(n, root)
                            THEN Gravity ELSE Zero]_vars

(***************************************************************************)
(* C18: while the forces are disabled, a tick changes the position of no   *)
(* node and adds no force to any node, with or without a root; the         *)
(* centering of the view on the selection still takes place in that tick.  *)
(***************************************************************************)
C18_DisabledForcesMoveNothing ==
    [][(TickStep /\ ~forces) =>
          /\ position' = position
          /\ force' = force
          /\ translation' = CenterOnSelected(position)]_vars

\* the forces are disabled, a root is set with a node connected to it, and a
\* tick has centered the view
C18_Witness ==
    /\ ~forces
    /\ ticks >= 1
    /\ root # None
    /\ edges # {}
    /\ translation # Zero

(***************************************************************************)
(* C19: in every reachable state, and so at the start of every tick, the   *)
(* accumulated force of every node is zero.                                *)
(***************************************************************************)
C19_ForcesZeroBetweenTicks == \A n \in NodeIds : force[n] = Zero

\* two ticks have run, and the forces of a tick have moved a node of a graph
\* with a root
C19_Witness ==
    /\ ticks >= 2
    /\ root # None
    /\ \E n \in NodeSet : position[n] \notin MousePoints

C21_SpaceHoldsTheView ==
    [][/\ (PointerMoveStep /\ space) =>
             /\ \A n \in Dragging : position'[n] = position[n]
             /\ translation' = translation
             /\ scale' = scale
       /\ (TickStep /\ space) =>
             /\ translation' =
                   IF selected = {} THEN translation
                   ELSE LET ns == ListOf(selected)
                        IN  Center(Average([i \in 1 .. Len(ns) |-> position'[ns[i]]]))
             /\ scale' = scale]_vars

\* space and the middle button are held, the pointer has moved away from a
\* dragged node, and a tick has run with two nodes selected
C21_Witness ==
    /\ space /\ middle
    /\ ticks >= 1
    /\ Cardinality(selected) >= 2
    /\ translation # Zero
    /\ \E n \in Dragging : position[n] # VSub(mouse, drag[n])

(***************************************************************************)
(* C22: the wheel turned while shift is held, with nodes selected, rotates *)
(* the nodes weakly connected to the selection about the average position  *)
(* of the selected nodes, each staying at its distance from it; every      *)
(* other node keeps its position, and the scale and the translation of the *)
(* view are unchanged.  With no node selected it changes nothing.          *)
(***************************************************************************)
C22_ShiftWheelRotatesTheComponent ==
    [][\A angle \in WheelAngles :
          (Wheel(angle) /\ shift) =>
             /\ UNCHANGED <<scale, translation, nodes, edges, selected>>
             /\ IF selected = {} THEN position' = position
                ELSE LET turned == GetWeaklyConnected(selected)
                         pivot == SelectedAverage
                     IN  /\ \A n \in NodeSet \ turned : position'[n] = position[n]
                         /\ \A n \in turned :
                               /\ position'[n] = Rotated(position[n], angle, pivot)
                               /\ Dist2(position'[n], pivot) = Dist2(position[n], pivot)]_vars

\* shift is held, a node is weakly connected to the selection without being
\* selected, another node is not connected to it, and the wheel has turned a node
C22_Witness ==
    /\ shift
    /\ selected # {}
    /\ GetWeaklyConnected(selected) \ selected # {}
    /\ NodeSet \ GetWeaklyConnected(selected) # {}
    /\ \E n \in NodeSet : position[n] \notin MousePoints

(***************************************************************************)
(* C23: the wheel turned while shift is not held multiplies the scale by   *)
(* 2 ** delta and sets the translation so that the pivot, a point of the   *)
(* world, is shown at the same point of the screen as before; the pivot is *)
(* the average position of the selected nodes while space is held and      *)
(* nodes are selected, and the position of the pointer otherwise.          *)
(***************************************************************************)
C23_ZoomKeepsThePivot ==
    [][\A angle \in WheelAngles :
          (Wheel(angle) /\ ~shift) =>
             LET pivot == IF space /\ selected # {} THEN SelectedAverage ELSE mouse
             IN  /\ scale' = Div(scale * Pow2(angle), Unit)
                 /\ VAdd(<<pivot[1] * scale', pivot[2] * scale'>>, translation')
                       = Inverse(pivot)
                 /\ UNCHANGED <<position, nodes, edges, selected>>]_vars

\* the view has been zoomed and moved, space is held, and the average position
\* of the two or more selected nodes is not the position of the pointer
C23_Witness ==
    /\ scale # InitialScale
    /\ translation # Zero
    /\ space
    /\ Cardinality(selected) >= 2
    /\ SelectedAverage # mouse

(***************************************************************************)
(* C24: Transformation.center(point, smoothness) with smoothness 1 shows   *)
(* the point at the middle of the canvas; with smoothness 0 it leaves the  *)
(* translation as it is; with a smoothness between them it multiplies the  *)
(* distance on the screen between the point and the middle of the canvas   *)
(* by 1 - smoothness.  The model divides in fixed point: a division is off *)
(* by less than one model unit, which the scale multiplies.                *)
(***************************************************************************)
Abs(x) == IF x < 0 THEN -x ELSE x
Within(u, v, tolerance) ==
    Abs(u[1] - v[1]) <= tolerance /\ Abs(u[2] - v[2]) <= tolerance

\* the vector on the screen from the middle of the canvas to the point, with the
\* translation t
ScreenOffset(point, t) ==
    VSub(VAdd(<<point[1] * scale, point[2] * scale>>, t), VDivInt(CanvasSize, 2))

C24_CenterApproachesTheMiddle ==
    [][\A point \in CenterPoints, smoothness \in Smoothnesses :
          CenterCall(point, smoothness) =>
             /\ (smoothness = Unit) =>
                   Within(ScreenOffset(point, translation'), Zero, scale)
             /\ (smoothness = 0) => translation' = translation
             /\ Within(ScreenOffset(point, translation'),
                       VMul(ScreenOffset(point, translation), Unit - smoothness),
                       2 * scale + 1)]_vars

\* repeated calls have brought a point that was far from the middle of the canvas
\* to it
C24_Witness ==
    /\ translation \notin ViewTranslations
    /\ \E point \in CenterPoints : Within(ScreenOffset(point, translation), Zero, scale)

(***************************************************************************)
(* C25: an import whose text parses replaces the graph of the canvas by    *)
(* the new graph and snaps the view onto the average position of the new   *)
(* nodes; an import whose text does not parse keeps the graph as it was    *)
(* and returns with a reported error, and raises nothing, whatever the     *)
(* graph was, the graph with no nodes included.                            *)
(***************************************************************************)
GraphVars == <<nodes, edges, position, selected, root, directed, held>>

C25_ImportReplacesOrReports ==
    [][\A outcome \in ImportOutcomes :
          Import(outcome) =>
             /\ (outcome.kind = "parsed") =>
                   /\ held' = held + 1
                   /\ Len(nodes') = Len(outcome.graph.pos)
                   /\ edges' = outcome.graph.edges
                   /\ \A i \in 1 .. Len(nodes') : position'[nodes'[i]] = outcome.graph.pos[i]
                   /\ (nodes' # <<>>) =>
                         Within(ScreenOffset(Average(outcome.graph.pos), translation'),
                                Zero, scale)
             /\ (outcome.kind = "unparsable") =>
                   /\ UNCHANGED GraphVars
                   /\ reported'
                   /\ ~raised']_vars

\* what the code does when the text does not parse: the graph is kept, nothing
\* is reported, and the view is centered on the nodes of the graph that was kept
C25_UnparsableIsSilent ==
    [][\A outcome \in ImportOutcomes :
          (outcome.kind = "unparsable" /\ Import(outcome)) =>
             /\ UNCHANGED GraphVars
             /\ ~reported'
             /\ raised' = (nodes = <<>>)]_vars


(***************************************************************************)
(* C26: when opening or writing the file of an export fails, the error is  *)
(* reported, a file the export created before the failure is removed, a    *)
(* failure before any file was created raises no further error, and the    *)
(* graph is unchanged.                                                     *)
(***************************************************************************)
C26_ExportFailureIsCleanedUp ==
    [][\A outcome \in ExportOutcomes :
          (outcome.kind \in {"open fails", "write fails"} /\ Export(outcome)) =>
             /\ reported'
             /\ UNCHANGED GraphVars
             /\ (outcome.kind = "write fails") => file' = "absent"
             /\ (outcome.kind = "open fails") => ~raised']_vars

\* what the code does: the failure is reported, the graph is unchanged and no
\* file is left at the path, but the removal raises when there is no file
C26_RemovalRaisesWithoutAFile ==
    [][\A outcome \in ExportOutcomes :
          (outcome.kind \in {"open fails", "write fails"} /\ Export(outcome)) =>
             /\ reported'
             /\ UNCHANGED GraphVars
             /\ file' = "absent"
             /\ raised' = (outcome.kind = "open fails" /\ ~outcome.existed)]_vars


(***************************************************************************)
(* C29: the actions of the settings dock, the buttons complement and       *)
(* reorient as well as the check boxes, act on the graph the canvas holds: *)
(* after an import no action acts on a graph the canvas has replaced.      *)
(***************************************************************************)
C29_DockActsOnTheHeldGraph == acted = None \/ acted = held


(***************************************************************************)
(* C27: in the loop over the pairs of a tick, a weakly connected pair of   *)
(* distinct nodes at a distance other than zero receives the attraction    *)
(* exactly when a vertex joins the two nodes in one orientation or the     *)
(* other; a weakly connected pair without a vertex of its own receives the *)
(* repulsion only; and the force added to one node of the pair is the      *)
(* negation of the force added to the other.                               *)
(***************************************************************************)
NoForce == [pos |-> position, f |-> [n \in NodeIds |-> Zero]]

\* the pairs n1, n2 of the loop that are weakly connected and apart
ApartPairs ==
    { pr \in NodeSet \X NodeSet :
        /\ \E i, j \in 1 .. Len(nodes) : i < j /\ pr = <<nodes[i], nodes[j]>>
        /\ WeaklyConnected(pr[1], pr[2])
        /\ Distance(position[pr[1]], position[pr[2]]) # 0 }

C27_AttractionIffLinked ==
    [][TickStep =>
          \A pr \in ApartPairs :
             LET n1 == pr[1]
                 n2 == pr[2]
                 d == Distance(position[n1], position[n2])
                 uv == UnitVector(VSub(position[n2], position[n1]))
                 repel == VMul(uv, Repulsion(d))
                 attract == VMul(uv, Attraction(d))
                 added == PairForces(NoForce, n1, n2, Zero)
             IN  /\ added.pos = position
                 /\ added.f[n1] = VNeg(added.f[n2])
                 /\ \A n \in NodeIds \ {n1, n2} : added.f[n] = Zero
                 /\ added.f[n2] = IF Linked(edges, n1, n2)
                                  THEN VAdd(repel, attract)
                                  ELSE repel]_vars

\* a tick has acted on a graph with a weakly connected pair that no vertex joins
\* and with a pair joined only by a vertex from the later node to the earlier,
\* both at a distance at which the attraction is not zero
C27_Witness ==
    /\ ticks > 0
    /\ \E pr \in ApartPairs :
          /\ ~Linked(edges, pr[1], pr[2])
          /\ Attraction(Distance(position[pr[1]], position[pr[2]])) # 0
    /\ \E pr \in ApartPairs :
          /\ IsVertex(edges, pr[2], pr[1]) /\ ~IsVertex(edges, pr[1], pr[2])
          /\ Attraction(Distance(position[pr[1]], position[pr[2]])) # 0


(***************************************************************************)
(* C28: within one tick every force of a pair is computed from the         *)
(* positions the two nodes had when the loop over the pairs began: the     *)
(* forces of a node are evaluated only after every pair with that node has *)
(* added its forces, and once, so the result of the tick is the result of  *)
(* adding to every node the forces of all its pairs at the positions of    *)
(* the start and then moving the node.                                     *)
(***************************************************************************)
IndexOf(n) == CHOOSE i \in 1 .. Len(nodes) : nodes[i] = n

\* the force the pair of n and the k-th node adds to n, at the positions the
\* tick started with
ForceFromPair(n, k, r) ==
    IF nodes[k] = n THEN Zero
    ELSE LET n1 == IF IndexOf(n) < k THEN n ELSE nodes[k]
             n2 == IF IndexOf(n) < k THEN nodes[k] ELSE n
         IN  PairForces(NoForce, n1, n2, Drawn(r, n1, n2)).f[n]

\* the forces the pairs of n with the k-th node and the nodes after it add to n
RECURSIVE ForceFromPairs(_, _, _)
ForceFromPairs(n, k, r) ==
    IF k > Len(nodes) THEN Zero
    ELSE VAdd(ForceFromPair(n, k, r), ForceFromPairs(n, k + 1, r))

C28_PairsSeeTheStartPositions ==
    [][\A r \in Draws :
          (forces /\ Tick(r)) =>
             \A n \in NodeSet :
                /\ force'[n] = Zero
                /\ position'[n] =
                      IF n = UpdateRoot \/ IsDragged(drag, n) THEN position[n]
                      ELSE VAdd(position[n],
                                VAdd(RootedForces[n], ForceFromPairs(n, 1, r)))]_vars

\* a tick has moved three nodes that are weakly connected to each other: the
\* first was moved before the pair of the second and the third was computed
C28_Witness ==
    /\ ticks > 0
    /\ forces
    /\ Len(nodes) = MaxNodes
    /\ \A n, m \in NodeSet : WeaklyConnected(n, m)
    /\ \A n \in NodeSet : position[n] \notin MousePoints

=============================================================================
